---- MODULE Spec2Model ----
(***************************************************************************)
(* Sam2RealtimeSegmentation (src/nodes.py): one node instance, its two     *)
(* fields predictor and if_init, and segment_images called any number of   *)
(* times on it.  The segmentation model is an external capability: each of *)
(* load_first_frame, add_new_prompt and track either raises or returns,    *)
(* and a returned mask-logit tensor has any number of objects (first       *)
(* dimension) between 0 and MaxObjs.  Tensors are represented by their     *)
(* provenance and shape; pixel values are not represented, and the tensor  *)
(* arithmetic of lines 251-272 (interpolate, resize, blend, torch.add) is  *)
(* taken to return.  The exceptions modelled are those the Python of       *)
(* segment_images itself raises, a raising model method, cv2.circle on a   *)
(* centre that is no (x, y) pair, and torch.stack on an empty list.        *)
(***************************************************************************)
EXTENDS Integers, Sequences, FiniteSets, TLC

\* ---- bounds ----
MaxCalls  == 2      \* segment_images calls on the instance
MaxFrames == 2      \* frames in one batch
MaxPoints == 2      \* points / labels in a prompt string
MaxObjs   == 2      \* objects in a returned mask-logit tensor

\* ---- values ----
None    == "None"   \* the unbound predictor
Unbound == -2       \* out_mask_logits not yet assigned
Raises  == -1       \* a model method raising instead of returning
NoExc   == <<"-", 0>>

Models == {"m1", "m2"}

\* the k-th frame of a batch, of shape (h, w, 3)
Frame(k) == [id |-> k, h |-> IF k % 2 = 1 THEN 2 ELSE 6, w |-> 3]

Digits == <<"0", "1", "2", "3", "4", "5", "6", "7", "8", "9">>

IsDigit(c) == \E d \in 1..Len(Digits) : Digits[d] = c

DigitVal(c) == (CHOOSE d \in 1..Len(Digits) : Digits[d] = c) - 1

\* ---- the strings the host passes: sequences of characters ----
RECURSIVE Join(_)
Join(parts) ==
    IF parts = <<>> THEN <<>>
    ELSE IF Len(parts) = 1 THEN Head(parts)
    ELSE Head(parts) \o <<",">> \o Join(Tail(parts))

\* "[[1,2],[2,3]]" for n = 2
CoordString(n) ==
    <<"[">> \o Join([i \in 1..n |-> <<"[", Digits[i + 1], ",", Digits[i + 2], "]">>]) \o <<"]">>

\* "[1,0]" for n = 2
LabelString(n) ==
    <<"[">> \o Join([i \in 1..n |-> <<Digits[(i % 2) + 1]>>]) \o <<"]">>

\* an optional STRING input: Python None (the default) or a string
PyNone   == [isNone |-> TRUE, s |-> <<>>]
PyStr(s) == [isNone |-> FALSE, s |-> s]

CoordInputs == {PyNone, PyStr(<<>>)} \cup {PyStr(CoordString(n)) : n \in 0..MaxPoints}

LabelInputs == {PyNone} \cup {PyStr(LabelString(n)) : n \in 0..MaxPoints}

ImageBatches == {[k \in 1..n |-> Frame(k)] : n \in 0..MaxFrames}

\* ---- ast.literal_eval on lists of integers ----
IntVal(k)      == [kind |-> "int", n |-> k, items |-> <<>>]
ListVal(items) == [kind |-> "list", n |-> 0, items |-> items]
ParseFail      == [ok |-> FALSE, val |-> IntVal(0), next |-> 0]

RECURSIVE ParseInt(_, _, _)
ParseInt(s, i, acc) ==
    IF i <= Len(s) /\ IsDigit(s[i])
    THEN ParseInt(s, i + 1, acc * 10 + DigitVal(s[i]))
    ELSE [ok |-> TRUE, val |-> IntVal(acc), next |-> i]

RECURSIVE ParseValue(_, _)
RECURSIVE ParseItems(_, _, _)
ParseValue(s, i) ==
    IF i > Len(s) THEN ParseFail
    ELSE IF IsDigit(s[i]) THEN ParseInt(s, i, 0)
    ELSE IF s[i] = "["
         THEN IF i + 1 <= Len(s) /\ s[i + 1] = "]"
              THEN [ok |-> TRUE, val |-> ListVal(<<>>), next |-> i + 2]
              ELSE ParseItems(s, i + 1, <<>>)
    ELSE ParseFail

ParseItems(s, i, acc) ==
    LET r == ParseValue(s, i) IN
    IF ~r.ok \/ r.next > Len(s) THEN ParseFail
    ELSE IF s[r.next] = ","
         THEN IF r.next + 1 <= Len(s) /\ s[r.next + 1] = "]"
              THEN [ok |-> TRUE, val |-> ListVal(Append(acc, r.val)), next |-> r.next + 2]
              ELSE ParseItems(s, r.next + 1, Append(acc, r.val))
    ELSE IF s[r.next] = "]"
         THEN [ok |-> TRUE, val |-> ListVal(Append(acc, r.val)), next |-> r.next + 1]
    ELSE ParseFail

\* an exception is named by its type and the source line that raises it
At(e, line) == <<e, line>>

\* exc is the type of the exception raised, "" when a value is returned

literal_eval(a) ==
    IF a.isNone THEN [exc |-> "ValueError", val |-> IntVal(0)]
    ELSE LET s == a.s
             r == ParseValue(s, 1) IN
         IF r.ok /\ r.next = Len(s) + 1
         THEN [exc |-> "", val |-> r.val]
         ELSE [exc |-> "SyntaxError", val |-> IntVal(0)]

\* list(map(int, v)) / tuple(map(int, v)): v must be a list of integers
IsIntList(v) == v.kind = "list" /\ \A k \in 1..Len(v.items) : v.items[k].kind = "int"

Ints(v) == [k \in 1..Len(v.items) |-> v.items[k].n]

\* ---- the model capability: one record per invocation ----
\* ret is Raises when the method raised, else the number of objects in the
\* returned mask logits (0 for load_first_frame, which returns nothing)
\* at is the frame_idx of the process_frame that made the invocation
Invocation(op, on, at, frame, fidx, obj, pts, lbls, ret) ==
    [op |-> op, on |-> on, at |-> at, frame |-> frame, frame_idx |-> fidx, obj_id |-> obj,
     points |-> pts, labels |-> lbls, ret |-> ret]

ModelRets == {Raises} \cup (0..MaxObjs)

\* ---- __init__ / segment_images prologue ----
\* a prologue that binds the predictor on every call
BindPredictor_Rebind(cur, model) == model

BindPredictor(cur, model) == IF cur = None THEN model ELSE cur

\* ---- process_frame, initializing branch ----
\* if not self.if_init, and a branch that always initializes
Initializing_Always(flag) == TRUE

Initializing(flag) == ~flag

\* self.if_init = True, and the same line left out
SetInit_Stale(flag) == flag

SetInit(flag) == TRUE

\* obj_id=idx + 1, and obj_id=idx
ObjId_ZeroBased(idx) == idx

ObjId(idx) == idx + 1

PromptLabel(labels, idx) == labels[idx + 1]

\* the enumerate loop over coordinates_positive_list, from index idx on;
\* out is the value of out_mask_logits so far
RECURSIVE PromptLoop(_, _, _, _, _, _, _, _)
PromptLoop(on, at, cps, pls, rets, idx, log, out) ==
    IF idx >= Len(cps) THEN [exc |-> NoExc, log |-> log, out |-> out]
    ELSE LET point == cps[idx + 1] IN
         IF ~IsIntList(point) THEN [exc |-> At("TypeError", 240), log |-> log, out |-> out]
         ELSE IF idx + 1 > Len(pls) THEN [exc |-> At("IndexError", 245), log |-> log, out |-> out]
         ELSE LET inv == Invocation("add_new_prompt", on, at, 0, 0, ObjId(idx),
                                    <<Ints(point)>>, <<PromptLabel(pls, idx)>>,
                                    rets[idx + 1]) IN
              IF rets[idx + 1] = Raises
              THEN [exc |-> At("ModelError", 241), log |-> Append(log, inv), out |-> out]
              ELSE PromptLoop(on, at, cps, pls, rets, idx + 1, Append(log, inv),
                              rets[idx + 1])

\* lines 232-246; loadRet and rets are what the model does when invoked
InitBranch(on, at, frame, coords, labels, loadRet, rets) ==
    LET load == Invocation("load_first_frame", on, at, frame.id, -1, 0, <<>>, <<>>, loadRet)
        cp   == literal_eval(coords)
        pl   == literal_eval(labels)
        stop(e, flag) == [exc |-> e, log |-> <<load>>, out |-> Unbound, if_init |-> flag]
    IN
    IF loadRet = Raises THEN stop(At("ModelError", 232), FALSE)
    ELSE IF cp.exc # "" THEN stop(At(cp.exc, 235), SetInit(FALSE))
    ELSE IF pl.exc # "" THEN stop(At(pl.exc, 236), SetInit(FALSE))
    ELSE IF ~IsIntList(pl.val) THEN stop(At("TypeError", 237), SetInit(FALSE))
    ELSE IF cp.val.kind # "list" THEN stop(At("TypeError", 239), SetInit(FALSE))
    ELSE LET r == PromptLoop(on, at, cp.val.items, Ints(pl.val), rets, 0, <<load>>, Unbound) IN
         [exc |-> r.exc, log |-> r.log, out |-> r.out, if_init |-> SetInit(FALSE)]

\* ---- process_frame, tracking branch (line 248) ----
TrackBranch(on, at, frame, ret) ==
    [exc |-> IF ret = Raises THEN At("ModelError", 248) ELSE NoExc,
     log |-> <<Invocation("track", on, at, frame.id, -1, 0, <<>>, <<>>, ret)>>,
     out |-> IF ret = Raises THEN Unbound ELSE ret,
     if_init |-> TRUE]

\* ---- process_frame, lines 250-272 ----
\* the 2-D mask of the frame's height and width: out_mask_logits[0, 0]
\* thresholded and resized (objs = {0}, the one object it is taken from), or
\* all ones when the logits hold no object (objs = {})
FrameMask(out, frame) ==
    [objs |-> IF out > 0 THEN {0} ELSE {}, shape |-> <<frame.h, frame.w>>]

colors == << <<255, 0, 255>>, <<0, 255, 255>>, <<255, 255, 0>>, <<0, 255, 0>>, <<255, 0, 0>> >>

\* _process_mask: one blended layer per index of the mask's first dimension
_process_mask(mask, frame_shape) ==
    IF mask.shape[1] = 0 THEN <<>>
    ELSE [k \in 1..mask.shape[1] |->
            [i |-> k - 1, color |-> colors[((k - 1) % Len(colors)) + 1],
             objs |-> mask.objs, alpha |-> 128]]

\* cv2.circle needs an (x, y) centre
CircleOk(center) == Len(center) = 2

\* the show_point loop iterates the coordinates_positive argument itself:
\* the characters of the string, one tuple(point) per character
RECURSIVE DrawLoop(_, _, _)
DrawLoop(s, k, drawn) ==
    IF k > Len(s) THEN [exc |-> NoExc, markers |-> drawn]
    ELSE LET center == <<s[k]>> IN
         IF CircleOk(center) THEN DrawLoop(s, k + 1, Append(drawn, center))
         ELSE [exc |-> At("cv2.error", 265), markers |-> drawn]

DrawPoints(show, coords) ==
    IF ~show THEN [exc |-> NoExc, markers |-> <<>>]
    ELSE IF coords.isNone THEN [exc |-> At("TypeError", 264), markers |-> <<>>]
    ELSE DrawLoop(coords.s, 1, <<>>)

NoEntry == [frame |-> 0, frame_idx |-> -1, overlay |-> <<>>, markers |-> <<>>,
            mask |-> [objs |-> {}, shape |-> <<0, 0>>]]

\* the entry appended to processed_frames and to mask_list for this frame
FrameTail(frame, fidx, out, show, coords) ==
    IF out = Unbound THEN [exc |-> At("UnboundLocalError", 250), entry |-> NoEntry]
    ELSE LET mask == FrameMask(out, frame)
             auto == _process_mask(mask, <<frame.h, frame.w, 3>>)
             draw == DrawPoints(show, coords) IN
         IF draw.exc # NoExc THEN [exc |-> draw.exc, entry |-> NoEntry]
         ELSE [exc |-> NoExc,
               entry |-> [frame |-> frame.id, frame_idx |-> fidx, overlay |-> auto,
                          markers |-> draw.markers, mask |-> mask]]

\* torch.add(frame * 0.7, automask_colored * 0.3)
automasked_frame(e) ==
    [frame |-> e.frame, frame_idx |-> e.frame_idx, overlay |-> e.overlay, markers |-> e.markers]

\* torch.add(frame * 0.1, mask * 0.9)
constructed_mask(e) == [frame |-> e.frame, frame_idx |-> e.frame_idx, mask |-> e.mask]

\* list.append, and an insert at the front
AppendFrame_Front(list, e) == <<e>> \o list

AppendFrame(list, e) == Append(list, e)

\* torch.stack refuses an empty list
stack(list, line) ==
    [exc |-> IF list = <<>> THEN At("RuntimeError", line) ELSE NoExc, val |-> list]

\* ---- state ----
VARIABLES
    predictor, if_init,                      \* the instance's fields
    pc,                                      \* "idle" between calls, "loop" inside the frame loop
    images, sam2_model, coordinates_positive, point_labels, show_point,
    frame_idx,                               \* frames of the batch processed so far
    processed_frames, mask_list,
    result,                                  \* how the latest call ended
    calls,                                   \* the model invocations of the latest process_frame
    ncalls, firstModel, nLoad, nLoadOk, nPromptOk   \* history of the instance

vars == <<predictor, if_init, pc, images, sam2_model, coordinates_positive, point_labels,
          show_point, frame_idx, processed_frames, mask_list, result, calls,
          ncalls, firstModel, nLoad, nLoadOk, nPromptOk>>

args == <<images, sam2_model, coordinates_positive, point_labels, show_point>>
hist == <<ncalls, firstModel>>

\* the locals of segment_images when no call is in progress
NoLocals ==
    /\ images' = <<>>
    /\ sam2_model' = [model |-> None]
    /\ coordinates_positive' = PyNone
    /\ point_labels' = PyNone
    /\ show_point' = FALSE
    /\ frame_idx' = 0
    /\ processed_frames' = <<>>
    /\ mask_list' = <<>>

NoResult   == [status |-> "none", exc |-> NoExc, frames |-> <<>>, masks |-> <<>>]
Raised(e)  == [status |-> "raised", exc |-> e, frames |-> <<>>, masks |-> <<>>]
Returned(f, m) == [status |-> "returned", exc |-> NoExc, frames |-> f, masks |-> m]

Count(log, op, okOnly) ==
    Cardinality({k \in 1..Len(log) : log[k].op = op /\ (okOnly => log[k].ret # Raises)})

\* __init__
Init ==
    /\ predictor = None
    /\ if_init = FALSE
    /\ pc = "idle"
    /\ images = <<>>
    /\ sam2_model = [model |-> None]
    /\ coordinates_positive = PyNone
    /\ point_labels = PyNone
    /\ show_point = FALSE
    /\ frame_idx = 0
    /\ processed_frames = <<>>
    /\ mask_list = <<>>
    /\ result = NoResult
    /\ calls = <<>>
    /\ ncalls = 0
    /\ firstModel = None
    /\ nLoad = 0
    /\ nLoadOk = 0
    /\ nPromptOk = 0

\* segment_images is entered: lines 215-225
Call(imgs, m, cp, pl, sp) ==
    /\ pc = "idle"
    /\ ncalls < MaxCalls
    /\ images' = imgs
    /\ sam2_model' = [model |-> m]
    /\ coordinates_positive' = cp
    /\ point_labels' = pl
    /\ show_point' = sp
    /\ predictor' = BindPredictor(predictor, m)
    /\ processed_frames' = <<>>
    /\ mask_list' = <<>>
    /\ frame_idx' = 0
    /\ result' = NoResult
    /\ calls' = <<>>
    /\ pc' = "loop"
    /\ ncalls' = ncalls + 1
    /\ firstModel' = IF ncalls = 0 THEN m ELSE firstModel
    /\ UNCHANGED <<if_init, nLoad, nLoadOk, nPromptOk>>

\* the rest of process_frame after its branch b, and the loop's next step
FrameStep(b) ==
    LET frame == images[frame_idx + 1]
        t == IF b.exc # NoExc THEN [exc |-> b.exc, entry |-> NoEntry]
             ELSE FrameTail(frame, frame_idx, b.out, show_point, coordinates_positive)
    IN
    /\ if_init' = b.if_init
    /\ calls' = b.log
    /\ nLoad' = nLoad + Count(b.log, "load_first_frame", FALSE)
    /\ nLoadOk' = nLoadOk + Count(b.log, "load_first_frame", TRUE)
    /\ nPromptOk' = nPromptOk + Count(b.log, "add_new_prompt", TRUE)
    /\ IF t.exc = NoExc
       THEN /\ processed_frames' = AppendFrame(processed_frames, automasked_frame(t.entry))
            /\ mask_list' = AppendFrame(mask_list, constructed_mask(t.entry))
            /\ frame_idx' = frame_idx + 1
            /\ UNCHANGED <<pc, result, args>>
       ELSE /\ pc' = "idle"
            /\ result' = Raised(t.exc)
            /\ NoLocals
    /\ UNCHANGED <<predictor, hist>>

\* process_frame on the next frame with if_init False
ProcessFrameInit(loadRet, rets) ==
    /\ pc = "loop"
    /\ frame_idx < Len(images)
    /\ Initializing(if_init)
    /\ FrameStep(InitBranch(predictor, frame_idx, images[frame_idx + 1], coordinates_positive,
                            point_labels, loadRet, rets))

\* process_frame on the next frame with if_init True
ProcessFrameTrack(ret) ==
    /\ pc = "loop"
    /\ frame_idx < Len(images)
    /\ ~Initializing(if_init)
    /\ FrameStep(TrackBranch(predictor, frame_idx, images[frame_idx + 1], ret))

\* lines 278-280, the loop being over
Return ==
    /\ pc = "loop"
    /\ frame_idx = Len(images)
    /\ LET sm == stack(mask_list, 278)
           sf == stack(processed_frames, 279) IN
       result' = IF sm.exc # NoExc THEN Raised(sm.exc)
                 ELSE IF sf.exc # NoExc THEN Raised(sf.exc)
                 ELSE Returned(sf.val, sm.val)
    /\ pc' = "idle"
    /\ NoLocals
    /\ UNCHANGED <<predictor, if_init, calls, hist, nLoad, nLoadOk, nPromptOk>>

Next ==
    \/ \E imgs \in ImageBatches, m \in Models, cp \in CoordInputs, pl \in LabelInputs,
          sp \in BOOLEAN : Call(imgs, m, cp, pl, sp)
    \/ \E loadRet \in {Raises, 0}, rets \in [1..MaxPoints -> ModelRets] :
          ProcessFrameInit(loadRet, rets)
    \/ \E ret \in ModelRets : ProcessFrameTrack(ret)
    \/ Return

Spec == Init /\ [][Next]_vars

\* ---- properties ----
Has(op) == \E k \in 1..Len(calls) : calls[k].op = op

IsPrompt(e) == e.op = "add_new_prompt"

Prompts == SelectSeq(calls, IsPrompt)

LoadsOkBefore == nLoadOk - Count(calls, "load_first_frame", TRUE)

\* the frame loop is about to process a frame / has all frames processed
AtFrame == pc = "loop" /\ frame_idx < Len(images)
AtEnd   == pc = "loop" /\ frame_idx = Len(images)

\* the latest process_frame appended its frame
JustAppended ==
    /\ pc = "loop"
    /\ calls # <<>>
    /\ frame_idx = calls[1].at + 1
    /\ Len(processed_frames) = frame_idx
    /\ Len(mask_list) = frame_idx

\* C1: track is invoked only after load_first_frame has run and at least one
\* add_new_prompt call has completed on the instance.
C1_TrackOnlyAfterPrompt == Has("track") => (nLoadOk >= 1 /\ nPromptOk >= 1)

\* C2 as stated: in every call the first frame goes to load_first_frame (with
\* the prompts registered) and only the remaining frames go to track; read
\* on instances whose prompt registration has succeeded.
C2_FirstFrameOfEveryCallSeeds ==
    nPromptOk >= 1 =>
    \A k \in 1..Len(calls) :
        IF calls[k].at = 0 THEN calls[k].op # "track" ELSE calls[k].op = "track"

\* C2 amended: load_first_frame and add_new_prompt are invoked only on the
\* first frame of a call and only while no load_first_frame has returned on
\* the instance; once one has returned every frame, the first frames of
\* later calls included, goes to track.
C2_SeedsFirstInitializingFrame ==
    /\ (Has("load_first_frame") \/ Has("add_new_prompt")) =>
           /\ \A k \in 1..Len(calls) : calls[k].at = 0 /\ calls[k].op # "track"
           /\ LoadsOkBefore = 0
    /\ Has("track") =>
           /\ Len(calls) = 1
           /\ LoadsOkBefore = 1
    /\ (calls # <<>> /\ LoadsOkBefore = 1) => Has("track")

C2_Witness ==
    /\ ncalls = 2 /\ pc = "loop" /\ frame_idx = 1
    /\ Has("track") /\ calls[1].at = 0 /\ nPromptOk >= 1

\* an output stack holds one entry per frame of the batch, in the batch's order
InOrder(stk, batch) ==
    /\ Len(stk) = Len(batch)
    /\ \A k \in 1..Len(stk) : stk[k].frame = batch[k].id /\ stk[k].frame_idx = k - 1

C4_EveryObjectColoured ==
    JustAppended =>
        LET overlay == processed_frames[frame_idx].overlay
            n       == calls[Len(calls)].ret IN
        \A i \in 0..(n - 1) :
            \E k \in 1..Len(overlay) :
                overlay[k].objs = {i} /\ overlay[k].color = colors[(i % 5) + 1]

\* the points a coordinates string denotes
PointsOf(a) ==
    LET r == literal_eval(a) IN
    IF r.exc = "" /\ r.val.kind = "list"
    THEN [k \in 1..Len(r.val.items) |-> Ints(r.val.items[k])]
    ELSE <<>>

\* C5: with show_point every processed frame carries one marker per prompt
\* point, at the point's parsed coordinates; without it, no marker.
C5_OneMarkerPerPoint ==
    /\ result.exc \notin {At("TypeError", 264), At("cv2.error", 265)}
    /\ JustAppended =>
           processed_frames[frame_idx].markers =
               IF show_point THEN PointsOf(coordinates_positive) ELSE <<>>

\* the arguments of an add_new_prompt invocation
PromptArgs(e) ==
    [frame_idx |-> e.frame_idx, obj_id |-> e.obj_id, points |-> e.points, labels |-> e.labels]

\* what the i-th point of CoordString and the i-th label of LabelString ask for
ExpectedPrompt(i) ==
    [frame_idx |-> 0, obj_id |-> i, points |-> << <<i, i + 1>> >>, labels |-> <<i % 2>>]

\* the initializing frame is next, with n points and m labels supplied
InitFrameOn(n, m) ==
    /\ AtFrame /\ ~if_init
    /\ coordinates_positive = PyStr(CoordString(n))
    /\ point_labels = PyStr(LabelString(m))

\* C6 as stated: on the initializing frame (load_first_frame having
\* returned), n points and at least n labels give exactly n add_new_prompt
\* calls, in list order, call i with frame_idx 0, point i alone, label i and
\* obj_id i; no add_new_prompt on any other frame.
C6_ExactlyOnePromptPerPoint ==
    [][/\ \A n \in 0..MaxPoints : \A m \in n..MaxPoints :
              (InitFrameOn(n, m) /\ calls'[1].ret # Raises) =>
                  [k \in 1..Len(Prompts') |-> PromptArgs(Prompts'[k])]
                      = [i \in 1..n |-> ExpectedPrompt(i)]
       /\ (AtFrame /\ if_init) => Prompts' = <<>>]_vars

\* C6 amended: the add_new_prompt calls made are call 1, 2, ... of that list,
\* in order, up to the first one that raises: all n when none raises, none
\* when load_first_frame raises.
C6_PromptsInOrderUntilRaise ==
    [][/\ \A n \in 0..MaxPoints : \A m \in n..MaxPoints :
              InitFrameOn(n, m) =>
                  LET made == Prompts' IN
                  /\ Len(made) <= n
                  /\ \A k \in 1..Len(made) :
                         /\ PromptArgs(made[k]) = ExpectedPrompt(k)
                         /\ k < Len(made) => made[k].ret # Raises
                  /\ Len(made) < n =>
                         \/ calls'[1].ret = Raises /\ made = <<>>
                         \/ made # <<>> /\ made[Len(made)].ret = Raises
                  /\ calls'[1].op = "load_first_frame"
                  /\ calls' = <<calls'[1]>> \o made
       /\ (AtFrame /\ if_init) => Prompts' = <<>>]_vars

C6_Witness ==
    /\ pc = "loop" /\ Len(calls) = 3
    /\ coordinates_positive = PyStr(CoordString(2))
    /\ PromptArgs(calls[2]) = ExpectedPrompt(1) /\ calls[2].ret # Raises
    /\ PromptArgs(calls[3]) = ExpectedPrompt(2) /\ calls[3].ret # Raises

\* every process_frame invokes exactly one of load_first_frame and track
ExactlyOneOfLoadOrTrack ==
    calls # <<>> =>
        Count(calls, "load_first_frame", FALSE) + Count(calls, "track", FALSE) = 1

\* C7 as stated: exactly one of load_first_frame / track per frame, and
\* load_first_frame is invoked at most once in the instance's lifetime.
C7_LoadInvokedAtMostOnce == ExactlyOneOfLoadOrTrack /\ nLoad <= 1

\* C7 amended: exactly one of load_first_frame / track per frame, and
\* load_first_frame returns at most once in the instance's lifetime: if_init
\* is set when it returns and never reset, and it is invoked again only
\* while every earlier invocation has raised.
C7_LoadReturnsAtMostOnce ==
    /\ ExactlyOneOfLoadOrTrack
    /\ nLoadOk <= 1
    /\ if_init <=> nLoadOk = 1
    /\ Has("load_first_frame") => LoadsOkBefore = 0
    /\ nLoad - nLoadOk <= ncalls

C7_Witness == nLoad = 2 /\ nLoadOk = 1 /\ if_init /\ Has("track")

\* the latest call raised in its initialization, lines 232-250
InitFailed ==
    /\ pc = "idle" /\ result.status = "raised"
    /\ Has("load_first_frame")
    /\ result.exc[2] \in 232..250

\* C8: a call whose initialization fails leaves if_init False.
C8_FailedInitLeavesFlag == InitFailed => ~if_init

\* C9: the predictor is the model of the first call, every model invocation
\* is made on it, and no later call rebinds it.
C9_PredictorBoundOnce ==
    /\ ncalls >= 1 => predictor = firstModel
    /\ \A k \in 1..Len(calls) : calls[k].on = firstModel

C9_Witness ==
    /\ ncalls = 2 /\ pc = "loop" /\ calls # <<>>
    /\ sam2_model.model # firstModel
    /\ calls[1].on = firstModel

\* C10: a frame for which the model returns no object mask does not fail:
\* it is appended to both lists, its mask all ones over the frame.
C10_EmptyLogitsGiveOnesMask ==
    (calls # <<>> /\ calls[Len(calls)].op # "load_first_frame" /\ calls[Len(calls)].ret = 0) =>
        /\ result.exc \notin {At("TypeError", 264), At("cv2.error", 265)}
        /\ JustAppended =>
               LET f == images[frame_idx] IN
               mask_list[frame_idx].mask = [objs |-> {}, shape |-> <<f.h, f.w>>]
====
